---------------------------- MODULE Spec2Model ----------------------------
(***************************************************************************)
(* Speaker identification pipelines of HennessyNight:                      *)
(*   - identify_multi_speaker   (src/python/multi_speaker_*.py)           *)
(*   - transcribe_with_speaker_identification                              *)
(*                              (src/python/transcribe_with_speaker.py)    *)
(*   - identify_speaker         (src/python/wespeaker_service.py)          *)
(*                                                                         *)
(* Conventions of the model                                                *)
(*   - a speaker identifier is a number of Speakers; the order of the      *)
(*     numbers is the lexicographic order of the identifiers; 0 is         *)
(*     Python's None.                                                      *)
(*   - a similarity is a level 0..MaxScore standing for level/MaxScore in  *)
(*     [0,1], the range of compute_similarity; a threshold is a level too, *)
(*     and may lie outside that range.                                     *)
(*   - a duration given to the program is a number of ticks of 1/DurDen    *)
(*     seconds; a time computed by the program is a number of samples      *)
(*     (sample / sample_rate seconds).                                     *)
(*   - a Python dict is the sequence of its items in insertion order.      *)
(***************************************************************************)
EXTENDS Integers, Sequences, FiniteSets, TLC

(* ------------------------------ bounds -------------------------------- *)
\* similarity levels 0..MaxScore
MaxScore == 2
\* longest audio, in seconds
MaxSeconds == 3
\* samples per second of the audio file
SampleRate == 4
\* ticks per second of the durations and times given as inputs
DurDen == 2
\* longest start or end time of a transcript segment, in ticks
MaxSegTicks == 2
\* most calls of init_model from outside the pipelines
MaxInitCalls == 3

\* Python's None as a speaker identifier
None == 0
\* the speaker name of an unrecognized transcript segment
Unrecognized == -1

\* the speaker identifiers of the galleries: two speakers, in both orders
Speakers == {1, 2}
\* the numbers of segments of a transcription
SegmentCounts == 0..2
Scores == 0..MaxScore
Thresholds == (-1)..(MaxScore + 1)
AudioLens == 0..(MaxSeconds * SampleRate)
\* chunk_duration values in ticks: negative, zero, one tick (less than a
\* second), one second, one tick more, two seconds
ChunkDurations == {-DurDen, 0, 1, DurDen, DurDen + 1, 2 * DurDen}
\* text of a transcript segment: empty, blank, or with words
Texts == {"", " ", "a"}
\* len(audio_data) in the transcript pipeline: up to one sample more than the
\* latest end of a segment
SegmentAudioLens == 0..((MaxSegTicks * SampleRate) \div DurDen + 1)
\* the model types and devices init_model is called with
ModelTypes == {"chinese", "english"}
Devices == {"cpu", "cuda"}
\* the segments the transcriber can return
Segments == [text : Texts, start : 0..MaxSegTicks, end : 0..MaxSegTicks]

(* ----------------------------- helpers -------------------------------- *)
Min(a, b) == IF a <= b THEN a ELSE b
Max(a, b) == IF a >= b THEN a ELSE b

\* Python's int() of the quotient a / b, b > 0: truncation toward zero
PyInt(a, b) == IF a >= 0 THEN a \div b ELSE -((-a) \div b)

\* one bound of a Python slice of a sequence of n items
PySliceIndex(n, k) == IF k < 0 THEN Max(n + k, 0) ELSE Min(k, n)

\* len(audio[s:e]) for a sequence of n items
PySliceLen(n, s, e) == Max(PySliceIndex(n, e) - PySliceIndex(n, s), 0)

\* the sequences without repetition over the set S: the insertion orders of
\* the dicts whose keys are a subset of S
RECURSIVE Orders(_)
Orders(S) ==
    IF S = {} THEN { <<>> }
    ELSE { <<>> } \cup
         UNION { { <<x>> \o o : o \in Orders(S \ {x}) } : x \in S }

\* the keys of a dict given as an insertion order
Keys(order) == { order[k] : k \in 1..Len(order) }

VARIABLES
    fn,                    \* the function that is running
    pc,                    \* its position
    audio_len,             \* len(audio) after sf.read, -1 before
    chunk_samples,         \* int(chunk_duration * sample_rate)
    threshold,
    reference_embeddings,  \* the gallery: its speaker ids in insertion order
    chunks,                \* split_audio_to_chunks: the windows so far
    start_sample,          \* split_audio_to_chunks: the loop variable
    i,                     \* index of the next window or segment (0-based)
    extracted,             \* the windows handed to the embedder: index, embedding returned
    scores,                \* similarities of the last matched window
    detected_speakers,     \* dict speaker_id -> count, max_confidence, time_ranges
    all_identifications,   \* the matches of identify_multi_speaker
    num_segments,          \* len(text_segments)
    text_segments,         \* the transcriber's segments read by the loop so far
    identified_segments,   \* the output segments of the transcript pipeline
    result,                \* the value returned
    iterations,            \* split_audio_to_chunks: entries of the loop body
    _model,                \* wespeaker_service: the cached model
    _model_type,           \* wespeaker_service: the type it was cached for
    init_calls,            \* the direct calls of init_model and their outcomes
    deterministic,         \* the loader and the embedder repeat their outcomes
    memo,                  \* the outcomes they have given, when deterministic
    run,                   \* the number of the call of identify_multi_speaker
    first_result,          \* the result of the first call
    script,                \* the command-line script that is running
    stdout,                \* what it has printed to standard output
    exit_code,             \* the value main returned, -1 before
    embedding1,            \* compute_similarity: its arguments
    embedding2,
    similarity,            \* compute_similarity: the value returned
    audio_buffer,          \* transcribe_realtime_stream: len(audio_buffer)
    reads,                 \* transcribe_realtime_stream: reads of stdin so far
    generate_calls,        \* the calls of pipeline.generate: is_final, samples
    stream_pc              \* transcribe_realtime_stream: its position

\* the variables of the three pipelines
pipelineVars == << fn, pc, audio_len, chunk_samples, threshold,
                   reference_embeddings, chunks, start_sample, i, extracted,
                   scores, detected_speakers, all_identifications,
                   num_segments, text_segments, identified_segments, result >>

cacheVars == << _model, _model_type >>
runVars == << deterministic, memo, run, first_result >>
cliVars == << script, stdout, exit_code >>
simVars == << embedding1, embedding2, similarity >>
streamVars == << audio_buffer, reads, generate_calls, stream_pc >>

\* what a pipeline function does not touch
outsideVars == << init_calls, deterministic, run, first_result, cliVars,
                  simVars, streamVars >>

vars == << pipelineVars, iterations, cacheVars, init_calls, runVars, cliVars,
           simVars, streamVars >>

NoResult == [pending |-> TRUE]

\* `_model = None`
NoModel == [loaded |-> FALSE]
\* `_model_type = None`
NoType == "None"
\* nothing remembered of the loader and the embedder
NoMemo == [recorded |-> FALSE]

\* the locals of the pipelines before a call
InitPipeline ==
    /\ fn = "none"
    /\ audio_len = -1
    /\ chunk_samples = 0
    /\ threshold = 0
    /\ reference_embeddings = <<>>
    /\ chunks = <<>>
    /\ start_sample = 0
    /\ i = 0
    /\ extracted = <<>>
    /\ scores = <<>>
    /\ detected_speakers = <<>>
    /\ all_identifications = <<>>
    /\ num_segments = 0
    /\ text_segments = <<>>
    /\ identified_segments = <<>>
    /\ result = NoResult
    /\ iterations = 0

\* wespeaker_service lines 28-29: nothing is cached when the module is loaded
InitCache ==
    /\ _model = NoModel
    /\ _model_type = NoType
    /\ init_calls = <<>>

InitRuns ==
    /\ memo = NoMemo
    /\ run = 1
    /\ first_result = NoResult

InitCli ==
    /\ script = "none"
    /\ stdout = <<>>
    /\ exit_code = -1

InitSim ==
    /\ embedding1 = <<>>
    /\ embedding2 = <<>>
    /\ similarity = -1

InitStream ==
    /\ audio_buffer = 0
    /\ reads = <<>>
    /\ generate_calls = <<>>
    /\ stream_pc = "idle"

\* a process that is about to call a pipeline function
Init ==
    /\ pc = "idle"
    /\ deterministic = FALSE
    /\ InitPipeline
    /\ InitCache
    /\ InitRuns
    /\ InitCli
    /\ InitSim
    /\ InitStream

(* ------------------------ wespeaker init_model ------------------------ *)
\* wespeaker.load_model(model_type): a model on which set_device was not
\* called yet
Fresh(model_type) ==
    [loaded |-> TRUE, type |-> model_type, device |-> "unset"]

\* a model after set_device(device)
OnDevice(model, device) == [model EXCEPT !.device = device]

\* line 45: `if _model is not None and _model_type == model_type`
CacheHit(model, cached_type, model_type) ==
    model # NoModel /\ cached_type = model_type

\* lines 45-73: what a call init_model(model_type, device) can do to the
\* cache (model, cached_type): return the cached model; raise in the import
\* or in load_model, before anything is assigned; raise in set_device after
\* `_model = ...`; or load, set the device, assign _model_type and return
InitModelOutcomes(model, cached_type, model_type, device) ==
    IF CacheHit(model, cached_type, model_type)
    THEN { [kind |-> "hit", model |-> model, model_type |-> cached_type,
            raised |-> FALSE] }
    ELSE { [kind |-> "load_raises", model |-> model,
            model_type |-> cached_type, raised |-> TRUE],
           [kind |-> "set_device_raises", model |-> Fresh(model_type),
            model_type |-> cached_type, raised |-> TRUE],
           [kind |-> "loaded", model |-> OnDevice(Fresh(model_type), device),
            model_type |-> model_type, raised |-> FALSE] }

\* a call of init_model from outside the pipelines
InitModel ==
    /\ pc = "idle"
    /\ Len(init_calls) < MaxInitCalls
    /\ \E model_type \in ModelTypes, device \in Devices :
          \E o \in InitModelOutcomes(_model, _model_type, model_type, device) :
             /\ _model' = o.model
             /\ _model_type' = o.model_type
             /\ init_calls' = Append(init_calls,
                                     [model_type |-> model_type,
                                      device |-> device,
                                      raised |-> o.raised,
                                      model |-> o.model])
    /\ UNCHANGED << pipelineVars, iterations, runVars, cliVars, simVars,
                    streamVars >>

(* --------------------------- gallery matching -------------------------- *)
\* the loop `for speaker_id, ref_embedding in reference_embeddings.items()`
\* with `if similarity > best_score`, from position k on
RECURSIVE MatchLoop(_, _, _, _)
MatchLoop(order, sc, k, best) ==
    IF k > Len(order) THEN best
    ELSE MatchLoop(order, sc, k + 1,
                   IF sc[order[k]] > best.score
                   THEN [speaker |-> order[k], score |-> sc[order[k]]]
                   ELSE best)

\* faulty variant of BestMatch: `>=` for `>`, so that the last of the best wins
BestMatchLastWins(order, sc) ==
    LET top == { k \in 1..Len(order) :
                    /\ sc[order[k]] > 0
                    /\ \A m \in 1..Len(order) : sc[order[m]] <= sc[order[k]] }
    IN IF top = {} THEN [speaker |-> None, score |-> 0]
       ELSE LET k == CHOOSE x \in top : \A y \in top : y <= x
            IN [speaker |-> order[k], score |-> sc[order[k]]]

\* best_speaker = None; best_score = 0; then the loop
BestMatch(order, sc) == MatchLoop(order, sc, 1, [speaker |-> None, score |-> 0])

\* faulty variant of IsMatch: the threshold is not looked at
IsMatchAnyScore(best_score, thr) == best_score > 0

\* `if best_score >= threshold`
IsMatch(best_score, thr) == best_score >= thr

(* ------------------------ Python max and sorted ------------------------ *)
\* max(items, key=...): the index of the first item whose key is maximal
FirstMaxIndex(keys) ==
    CHOOSE j \in 1..Len(keys) :
        \A m \in 1..Len(keys) :
            /\ keys[m] <= keys[j]
            /\ (keys[m] = keys[j] => j <= m)

\* faulty variant of StableDescOrder: the items are left as they are
InsertionOrder(keys) == [p \in 1..Len(keys) |-> p]

\* sorted(items, key=..., reverse=True): the indices of the items in the
\* order of the result; the sort is stable, also with reverse=True
StableDescOrder(keys) ==
    LET n == Len(keys)
        rank(j) == 1 + Cardinality({ m \in 1..n :
                        \/ keys[m] > keys[j]
                        \/ (keys[m] = keys[j] /\ m < j) })
    IN [p \in 1..n |-> CHOOSE j \in 1..n : rank(j) = p]

\* line 204: sorted(scores.items(), key=score, reverse=True), the ranking
\* that identify_multi_speaker writes to stderr for every scored window
RankedScores(order, sc) ==
    LET perm == StableDescOrder([k \in 1..Len(order) |-> sc[order[k]]])
    IN [p \in 1..Len(order) |->
            [profileId |-> order[perm[p]], confidence |-> sc[order[perm[p]]]]]

(* -------------------------- split_audio_to_chunks ---------------------- *)
\* chunk_samples = int(chunk_duration * sample_rate)
ChunkSamples(chunk_duration) == PyInt(chunk_duration * SampleRate, DurDen)

\* faulty variant of EndSample: the end is not limited to the audio
EndSampleNoClamp(start, n) == start + chunk_samples

\* end_sample = min(start_sample + chunk_samples, len(audio))
EndSample(start, n) == Min(start + chunk_samples, n)

\* faulty variant of ChunkTooShort: half a second is enough
ChunkTooShortHalf(len) == 2 * len < SampleRate

\* `if len(chunk) < sample_rate * 1.0: break`
ChunkTooShort(len) == len < SampleRate

\* faulty variant of NextStart: the next window starts one sample early
NextStartOverlap(end_sample) == end_sample - 1

\* `start_sample = end_sample`
NextStart(end_sample) == end_sample

(* ------------------ the loader and the embedder ------------------------ *)
\* the defaults of the parameters model_type and device, with which the
\* pipelines are called
DefaultModelType == "chinese"
DefaultDevice == "cpu"

\* the outcomes of init_model(DefaultModelType, DefaultDevice)
DefaultInit ==
    InitModelOutcomes(_model, _model_type, DefaultModelType, DefaultDevice)

\* an embedding that could not be extracted
NoEmbedding == [ok |-> FALSE]

\* what the extraction of an embedding can give after the outcome o of
\* init_model: nothing when init_model or the extraction raised, or an
\* embedding, given by its similarities sc to the gallery
Embeddings(o, gallery) ==
    IF o.raised THEN { NoEmbedding }
    ELSE { NoEmbedding } \cup
         { [ok |-> TRUE, sc |-> sc] : sc \in [Keys(gallery) -> Scores] }

\* nothing is remembered yet of a deterministic loader and embedder
EmptyMemo == [recorded |-> TRUE, audio |-> -2, loader |-> "unknown",
              windows |-> <<>>]

\* a deterministic sf.read gives the same audio for the same file
RepeatsAudio(n) ==
    (deterministic /\ memo.audio # -2) => n = memo.audio

RememberAudio(n) ==
    IF deterministic THEN [memo EXCEPT !.audio = n] ELSE memo

\* a deterministic loader does the same for the same arguments, and a
\* deterministic embedder gives the same for the same model and window
Repeats(w, o, e) ==
    deterministic =>
        /\ (o.kind # "hit" /\ memo.loader # "unknown") => o.kind = memo.loader
        /\ (w + 1 <= Len(memo.windows) /\ ~o.raised
               /\ memo.windows[w + 1].model = o.model)
             => e = memo.windows[w + 1].e

Remember(w, o, e) ==
    IF ~deterministic THEN memo
    ELSE LET entry == [model |-> IF o.raised THEN NoModel ELSE o.model,
                       e |-> e]
             m1 == IF o.kind # "hit" THEN [memo EXCEPT !.loader = o.kind]
                   ELSE memo
         IN IF w + 1 <= Len(m1.windows)
            THEN [m1 EXCEPT !.windows[w + 1] = entry]
            ELSE [m1 EXCEPT !.windows = Append(@, entry)]

(* ------------------------- identify_multi_speaker ---------------------- *)
ErrorResult(msg) == [success |-> FALSE, error |-> msg]

\* the position of speaker sid in the dict, 0 when it is no key
IndexOf(ds, sid) ==
    IF \E k \in 1..Len(ds) : ds[k].speaker_id = sid
    THEN CHOOSE k \in 1..Len(ds) : ds[k].speaker_id = sid
    ELSE 0

\* faulty variant of RecordSpeaker: every match makes a new entry
RecordSpeakerAlwaysNew(ds, sid, score, chunk) ==
    Append(ds, [speaker_id |-> sid, count |-> 1, max_confidence |-> score,
                time_ranges |-> << [start |-> chunk.start_time,
                                    end |-> chunk.end_time] >>])

\* faulty variant of RecordSpeaker: max_confidence is the last confidence
RecordSpeakerLastConfidence(ds, sid, score, chunk) ==
    LET ds1 == IF IndexOf(ds, sid) = 0
               THEN Append(ds, [speaker_id |-> sid, count |-> 0,
                                max_confidence |-> 0, time_ranges |-> <<>>])
               ELSE ds
    IN [ds1 EXCEPT ![IndexOf(ds1, sid)] =
            [speaker_id |-> sid,
             count |-> @.count + 1,
             max_confidence |-> score,
             time_ranges |-> Append(@.time_ranges,
                                    [start |-> chunk.start_time,
                                     end |-> chunk.end_time])]]

\* faulty variant of RecordSpeaker: the time range is put in front
RecordSpeakerPrepends(ds, sid, score, chunk) ==
    LET ds1 == IF IndexOf(ds, sid) = 0
               THEN Append(ds, [speaker_id |-> sid, count |-> 0,
                                max_confidence |-> 0, time_ranges |-> <<>>])
               ELSE ds
    IN [ds1 EXCEPT ![IndexOf(ds1, sid)] =
            [speaker_id |-> sid,
             count |-> @.count + 1,
             max_confidence |-> Max(@.max_confidence, score),
             time_ranges |-> << [start |-> chunk.start_time,
                                 end |-> chunk.end_time] >> \o @.time_ranges]]

\* lines 212-227: the entry of best_speaker is created when missing, then
\* count += 1, max_confidence = max(...), time_ranges.append(...)
RecordSpeaker(ds, sid, score, chunk) ==
    LET ds1 == IF IndexOf(ds, sid) = 0
               THEN Append(ds, [speaker_id |-> sid, count |-> 0,
                                max_confidence |-> 0, time_ranges |-> <<>>])
               ELSE ds
        k == IndexOf(ds1, sid)
    IN [ds1 EXCEPT ![k] =
            [speaker_id |-> sid,
             count |-> @.count + 1,
             max_confidence |-> Max(@.max_confidence, score),
             time_ranges |-> Append(@.time_ranges,
                                    [start |-> chunk.start_time,
                                     end |-> chunk.end_time])]]

\* faulty variant of PrimarySpeaker: the key is max_confidence
PrimaryByConfidence(ds) ==
    ds[FirstMaxIndex([k \in 1..Len(ds) |-> ds[k].max_confidence])].speaker_id

\* faulty variant of PrimarySpeaker: the last of the speakers with the highest count
PrimaryLastMax(ds) ==
    LET top == { k \in 1..Len(ds) : \A m \in 1..Len(ds) : ds[m].count <= ds[k].count }
    IN ds[CHOOSE k \in top : \A m \in top : m <= k].speaker_id

\* primary_speaker = max(detected_speakers.items(), key=count)[0]
PrimarySpeaker(ds) ==
    ds[FirstMaxIndex([k \in 1..Len(ds) |-> ds[k].count])].speaker_id

\* faulty variant of Candidates: equal max_confidence is ordered by the
\* higher count, then by the identifier
CandidatesTiesByCount(ds) ==
    LET n == Len(ds)
        before(a, b) ==
            \/ ds[a].max_confidence > ds[b].max_confidence
            \/ /\ ds[a].max_confidence = ds[b].max_confidence
               /\ \/ ds[a].count > ds[b].count
                  \/ /\ ds[a].count = ds[b].count
                     /\ ds[a].speaker_id < ds[b].speaker_id
        rank(j) == 1 + Cardinality({ m \in 1..n : before(m, j) })
        perm == [p \in 1..n |-> CHOOSE j \in 1..n : rank(j) = p]
    IN [p \in 1..n |->
            [profileId |-> ds[perm[p]].speaker_id,
             confidence |-> ds[perm[p]].max_confidence,
             occurrences |-> ds[perm[p]].count,
             timeRanges |-> ds[perm[p]].time_ranges]]

\* candidates: sorted(detected_speakers.items(), key=max_confidence, reverse=True)
Candidates(ds) ==
    LET perm == StableDescOrder([k \in 1..Len(ds) |-> ds[k].max_confidence])
    IN [p \in 1..Len(ds) |->
            [profileId |-> ds[perm[p]].speaker_id,
             confidence |-> ds[perm[p]].max_confidence,
             occurrences |-> ds[perm[p]].count,
             timeRanges |-> ds[perm[p]].time_ranges]]

\* faulty variant of AnyDetected: one detected speaker is not enough
SeveralDetected(ds) == Len(ds) > 1

\* line 256: `if detected_speakers:`
AnyDetected(ds) == ds # <<>>

\* faulty variant of IsMultiSpeaker: one detected speaker is enough
IsMultiSpeakerFromOne(ds) == Len(ds) >= 1

\* line 281: 'multiSpeaker': len(detected_speakers) > 1
IsMultiSpeaker(ds) == Len(ds) > 1

\* lines 256-294: the value returned after the loop
MultiResult(ds, ids) ==
    IF AnyDetected(ds)
    THEN LET primary == PrimarySpeaker(ds)
         IN [success |-> TRUE,
             identified |-> TRUE,
             profileId |-> primary,
             speakerId |-> primary,
             confidence |-> ds[IndexOf(ds, primary)].max_confidence,
             multiSpeaker |-> IsMultiSpeaker(ds),
             detectedSpeakers |-> [k \in 1..Len(ds) |-> ds[k].speaker_id],
             numDetectedSpeakers |-> Len(ds),
             candidates |-> Candidates(ds),
             chunks |-> ids]
    ELSE [success |-> TRUE,
          identified |-> FALSE,
          multiSpeaker |-> FALSE,
          detectedSpeakers |-> <<>>,
          numDetectedSpeakers |-> 0,
          candidates |-> <<>>]

\* faulty variant of GalleryMalformed: the exception leaves the function
GalleryRaises ==
    /\ UNCHANGED << reference_embeddings, result >>
    /\ pc' = "raised"

\* lines 159 and 296-304: json.loads raises on a malformed gallery and the
\* except clause returns the error result
GalleryMalformed ==
    /\ UNCHANGED reference_embeddings
    /\ result' = ErrorResult("json")
    /\ pc' = "done"

\* the call: threshold and chunk_duration are taken, then json.loads of the
\* gallery; a malformed gallery raises and the except clause returns
CallIdentifyMulti ==
    /\ pc = "idle"
    /\ fn' = "identify_multi_speaker"
    /\ \E thr \in Thresholds, cd \in ChunkDurations :
        /\ threshold' = thr
        /\ chunk_samples' = ChunkSamples(cd)
    /\ \/ /\ \E g \in Orders(Speakers) : reference_embeddings' = g
          /\ pc' = "split"
          /\ UNCHANGED result
       \/ GalleryMalformed
    /\ UNCHANGED << audio_len, chunks, start_sample, i, extracted, scores,
                    detected_speakers, all_identifications, num_segments,
                    text_segments, identified_segments >>
    /\ UNCHANGED << iterations, cacheVars, memo, outsideVars >>

\* split_audio_to_chunks up to its loop: sf.read gives the samples, or raises
\* and the except clause returns []
SplitRead ==
    /\ pc = "split"
    /\ \/ \E n \in AudioLens :
             /\ RepeatsAudio(n)
             /\ memo' = RememberAudio(n)
             /\ audio_len' = n
             /\ pc' = "split_loop"
       \/ /\ RepeatsAudio(-1)
          /\ memo' = RememberAudio(-1)
          /\ UNCHANGED audio_len
          /\ pc' = "split_done"
    /\ chunks' = <<>>
    /\ start_sample' = 0
    /\ UNCHANGED << fn, chunk_samples, threshold, reference_embeddings, i,
                    extracted, scores, detected_speakers, all_identifications,
                    num_segments, text_segments, identified_segments,
                    result >>
    /\ iterations' = 0
    /\ UNCHANGED << cacheVars, outsideVars >>

\* one test of `while start_sample < len(audio)` and the body that follows
SplitStep ==
    /\ pc = "split_loop"
    /\ LET end_sample == EndSample(start_sample, audio_len)
           len == PySliceLen(audio_len, start_sample, end_sample)
       IN IF start_sample < audio_len /\ ~ChunkTooShort(len)
          THEN /\ chunks' = Append(chunks, [start_time |-> start_sample,
                                            end_time |-> end_sample])
               /\ start_sample' = NextStart(end_sample)
               /\ pc' = "split_loop"
          ELSE /\ pc' = "split_done"
               /\ UNCHANGED << chunks, start_sample >>
    /\ UNCHANGED << fn, audio_len, chunk_samples, threshold,
                    reference_embeddings, i, extracted, scores,
                    detected_speakers, all_identifications, num_segments,
                    text_segments, identified_segments, result >>
    /\ iterations' = IF start_sample < audio_len THEN iterations + 1
                     ELSE iterations
    /\ UNCHANGED << cacheVars, memo, outsideVars >>

\* faulty variant of CheckChunks: the speakers and matches of an earlier
\* call are kept
CheckChunksKeepsSpeakers ==
    /\ pc = "split_done"
    /\ IF chunks = <<>>
       THEN /\ result' = ErrorResult("Failed to split audio")
            /\ pc' = "done"
       ELSE /\ pc' = "loop"
            /\ UNCHANGED result
    /\ i' = 0
    /\ UNCHANGED << fn, audio_len, chunk_samples, threshold,
                    reference_embeddings, chunks, start_sample, extracted,
                    scores, num_segments, text_segments,
                    identified_segments, detected_speakers,
                    all_identifications >>
    /\ UNCHANGED << iterations, cacheVars, memo, outsideVars >>

\* lines 165-173: `if not chunks` returns the error result
CheckChunks ==
    /\ pc = "split_done"
    /\ IF chunks = <<>>
       THEN /\ result' = ErrorResult("Failed to split audio")
            /\ pc' = "done"
       ELSE /\ pc' = "loop"
            /\ UNCHANGED result
    /\ i' = 0
    /\ detected_speakers' = <<>>
    /\ all_identifications' = <<>>
    /\ UNCHANGED << fn, audio_len, chunk_samples, threshold,
                    reference_embeddings, chunks, start_sample, extracted,
                    scores, num_segments, text_segments,
                    identified_segments >>
    /\ UNCHANGED << iterations, cacheVars, memo, outsideVars >>

\* faulty variant of ChunkSkipped: the failure of one window ends the run
ChunkAborts ==
    /\ pc' = "done"
    /\ result' = ErrorResult("extract_chunk_embedding")
    /\ UNCHANGED << scores, detected_speakers, all_identifications >>

\* lines 186-188: `if chunk_embedding is None: continue`
ChunkSkipped ==
    UNCHANGED << pc, result, scores, detected_speakers, all_identifications >>

\* one iteration of `for i, chunk_info in enumerate(chunks)`:
\* extract_chunk_embedding returns None on any exception and the window is
\* skipped; otherwise the similarities sc of the window are matched
ProcessChunk ==
    /\ pc = "loop"
    /\ i < Len(chunks)
    /\ i' = i + 1
    /\ \E o \in DefaultInit :
        /\ _model' = o.model
        /\ _model_type' = o.model_type
        /\ \E e \in Embeddings(o, reference_embeddings) :
            /\ Repeats(i, o, e)
            /\ memo' = Remember(i, o, e)
            /\ extracted' = Append(extracted, [index |-> i, ok |-> e.ok])
            /\ IF ~e.ok
               THEN ChunkSkipped
               ELSE LET best == BestMatch(reference_embeddings, e.sc)
                        chunk == chunks[i + 1]
                    IN /\ scores' = e.sc
                       /\ IF IsMatch(best.score, threshold)
                          THEN /\ detected_speakers' =
                                    RecordSpeaker(detected_speakers,
                                                  best.speaker, best.score,
                                                  chunk)
                               /\ all_identifications' =
                                    Append(all_identifications,
                                           [chunk_index |-> i,
                                            start_time |-> chunk.start_time,
                                            end_time |-> chunk.end_time,
                                            speaker_id |-> best.speaker,
                                            confidence |-> best.score])
                          ELSE UNCHANGED << detected_speakers,
                                            all_identifications >>
                       /\ UNCHANGED << pc, result >>
    /\ UNCHANGED << fn, audio_len, chunk_samples, threshold,
                    reference_embeddings, chunks, start_sample, num_segments,
                    text_segments, identified_segments >>
    /\ UNCHANGED << iterations, outsideVars >>

\* lines 239-294: after the last window the result is built
Summarize ==
    /\ pc = "loop"
    /\ i = Len(chunks)
    /\ result' = MultiResult(detected_speakers, all_identifications)
    /\ pc' = "done"
    /\ UNCHANGED << fn, audio_len, chunk_samples, threshold,
                    reference_embeddings, chunks, start_sample, i, extracted,
                    scores, detected_speakers, all_identifications,
                    num_segments, text_segments, identified_segments >>
    /\ UNCHANGED << iterations, cacheVars, memo, outsideVars >>

(* ---------------------- identify_speaker (wespeaker) ------------------- *)
\* `identified = best_score >= threshold`
Identified(best_score, thr) == best_score >= thr

\* lines 238-279: the scores of the gallery, the best of them, the result
IdentifyResult(order, sc, thr) ==
    IF order # <<>>
    THEN LET keys == [k \in 1..Len(order) |-> sc[order[k]]]
             best_id == order[FirstMaxIndex(keys)]
             best_score == sc[best_id]
             identified == Identified(best_score, thr)
             perm == StableDescOrder(keys)
         IN [success |-> TRUE,
             identified |-> identified,
             profileId |-> IF identified THEN best_id ELSE None,
             speakerId |-> IF identified THEN best_id ELSE None,
             confidence |-> best_score,
             similarity |-> best_score,
             threshold |-> thr,
             candidates |-> [p \in 1..Len(order) |->
                                [profileId |-> order[perm[p]],
                                 confidence |-> sc[order[perm[p]]]]]]
    ELSE [success |-> TRUE, identified |-> FALSE, candidates |-> <<>>]

\* identify_speaker as a whole: json.loads raises on a malformed gallery,
\* extract_embedding reports a failure, or the gallery is scored
IdentifySpeaker ==
    /\ pc = "idle"
    /\ fn' = "identify_speaker"
    /\ pc' = "done"
    /\ \E thr \in Thresholds :
        /\ threshold' = thr
        /\ \/ /\ result' = ErrorResult("json")
              /\ UNCHANGED << reference_embeddings, scores, extracted,
                              cacheVars >>
           \/ \E g \in Orders(Speakers), o \in DefaultInit :
                /\ reference_embeddings' = g
                /\ _model' = o.model
                /\ _model_type' = o.model_type
                /\ \E e \in Embeddings(o, g) :
                      /\ extracted' = << [index |-> 0, ok |-> e.ok] >>
                      /\ IF ~e.ok
                         THEN /\ result' = ErrorResult("Failed to extract test embedding")
                              /\ UNCHANGED scores
                         ELSE /\ scores' = e.sc
                              /\ result' = IdentifyResult(g, e.sc, thr)
    /\ UNCHANGED << audio_len, chunk_samples, chunks, start_sample, i,
                    detected_speakers, all_identifications, num_segments,
                    text_segments, identified_segments >>
    /\ UNCHANGED << iterations, memo, outsideVars >>

(* ---------------- transcribe_with_speaker_identification --------------- *)
\* faulty variant of Strip: the text is not stripped
StripNothing(text) == text

\* text.strip() of the texts of the model
Strip(text) == IF text = " " THEN "" ELSE text

\* int(time * sample_rate) of a time given in ticks
SampleOf(ticks) == PyInt(ticks * SampleRate, DurDen)

\* len(audio_data[start_sample:end_sample]) of a segment
SegmentLen(seg, n) == PySliceLen(n, SampleOf(seg.start), SampleOf(seg.end))

\* faulty variant of SegmentTooShort: a quarter of a second
SegmentTooShortQuarter(len) == 4 * len < SampleRate

\* `if len(segment_audio) < sample_rate * 0.5`
SegmentTooShort(len) == 2 * len < SampleRate

\* an output segment
OutSegment(seg, name, confidence) ==
    [text |-> Strip(seg.text), start |-> seg.start, end |-> seg.end,
     speaker |-> [name |-> name, confidence |-> confidence]]

\* lines 154-175: the output segment of a segment that was scored
MatchedSegment(seg, best, thr) ==
    IF best.score >= thr
    THEN OutSegment(seg, best.speaker, best.score)
    ELSE OutSegment(seg, Unrecognized, best.score)

\* lines 44-92: the transcription, the gallery, the model and the audio; a
\* failed transcription returns an error result, and an exception of
\* json.loads, init_model or sf.read reaches the except clause
CallTranscribe ==
    /\ pc = "idle"
    /\ fn' = "transcribe_with_speaker_identification"
    /\ \E thr \in Thresholds : threshold' = thr
    /\ \/ /\ result' = ErrorResult("Transcription failed")
          /\ pc' = "done"
          /\ UNCHANGED << num_segments, reference_embeddings, audio_len,
                          cacheVars >>
       \/ /\ \E n \in SegmentCounts : num_segments' = n
          /\ \/ /\ result' = ErrorResult("json")
                /\ pc' = "done"
                /\ UNCHANGED << reference_embeddings, audio_len, cacheVars >>
             \/ \E o \in DefaultInit :
                  /\ _model' = o.model
                  /\ _model_type' = o.model_type
                  /\ IF o.raised
                     THEN /\ result' = ErrorResult("init_model")
                          /\ pc' = "done"
                          /\ UNCHANGED << reference_embeddings, audio_len >>
                     ELSE \/ /\ result' = ErrorResult("sf.read")
                             /\ pc' = "done"
                             /\ UNCHANGED << reference_embeddings, audio_len >>
                          \/ /\ \E g \in Orders(Speakers) :
                                    reference_embeddings' = g
                             /\ \E n \in SegmentAudioLens : audio_len' = n
                             /\ pc' = "segments"
                             /\ UNCHANGED result
    /\ i' = 0
    /\ text_segments' = <<>>
    /\ identified_segments' = <<>>
    /\ UNCHANGED << chunk_samples, chunks, start_sample, extracted, scores,
                    detected_speakers, all_identifications >>
    /\ UNCHANGED << iterations, memo, outsideVars >>

\* lines 124-134 and 200-208: an exception of extract_embedding_from_pcm is
\* not caught in the loop; the except clause of the function returns
SegmentRaised ==
    /\ result' = ErrorResult("extract_embedding_from_pcm")
    /\ pc' = "done"
    /\ UNCHANGED << identified_segments, scores >>

\* one iteration of `for i, segment in enumerate(text_segments)`
ProcessSegment ==
    /\ pc = "segments"
    /\ i < num_segments
    /\ i' = i + 1
    /\ \E seg \in Segments :
        /\ text_segments' = Append(text_segments, seg)
        /\ IF Strip(seg.text) = ""
           THEN UNCHANGED << identified_segments, extracted, scores, result, pc >>
           ELSE IF SegmentTooShort(SegmentLen(seg, audio_len))
           THEN /\ identified_segments' =
                        Append(identified_segments,
                               OutSegment(seg, Unrecognized, 0))
                /\ UNCHANGED << extracted, scores, result, pc >>
           ELSE \/ /\ extracted' = Append(extracted, [index |-> i, ok |-> FALSE])
                   /\ SegmentRaised
                \/ /\ extracted' = Append(extracted, [index |-> i, ok |-> TRUE])
                   /\ \E sc \in [Keys(reference_embeddings) -> Scores] :
                        /\ scores' = sc
                        /\ identified_segments' =
                             Append(identified_segments,
                                    MatchedSegment(seg,
                                        BestMatch(reference_embeddings, sc),
                                        threshold))
                   /\ UNCHANGED << result, pc >>
    /\ UNCHANGED << fn, audio_len, chunk_samples, threshold,
                    reference_embeddings, chunks, start_sample,
                    detected_speakers, all_identifications, num_segments >>
    /\ UNCHANGED << iterations, cacheVars, memo, outsideVars >>

\* lines 177-198: the result after the last segment
FinishTranscribe ==
    /\ pc = "segments"
    /\ i = num_segments
    /\ result' = [success |-> TRUE,
                  segments |-> identified_segments,
                  full_text |-> "text",
                  total_segments |-> Len(identified_segments)]
    /\ pc' = "done"
    /\ UNCHANGED << fn, audio_len, chunk_samples, threshold,
                    reference_embeddings, chunks, start_sample, i, extracted,
                    scores, detected_speakers, all_identifications,
                    num_segments, text_segments, identified_segments >>
    /\ UNCHANGED << iterations, cacheVars, memo, outsideVars >>

Next ==
    \/ CallIdentifyMulti
    \/ SplitRead
    \/ SplitStep
    \/ CheckChunks
    \/ ProcessChunk
    \/ Summarize
    \/ IdentifySpeaker
    \/ CallTranscribe
    \/ ProcessSegment
    \/ FinishTranscribe

Spec == Init /\ [][Next]_vars

(* ------------------------- compute_similarity -------------------------- *)
\* Floating point at a reduced width: a value is an integer number of units
\* of 2^-FracBits, and every operation rounds its exact result to Precision
\* significant bits, to nearest and ties to even, as IEEE 754 does with 53
\* bits. The constant 1e-8 of the source becomes 2^-EpsExp, which, like
\* 1e-8 in double precision, is many units in the last place of 1.0 and less
\* than half a unit in the last place of a large norm.
Precision == 8
FracBits == 9
EpsExp == 6

One == 2 ^ FracBits
Eps == 2 ^ (FracBits - EpsExp)

Abs(x) == IF x < 0 THEN -x ELSE x
Sgn(x) == IF x < 0 THEN -1 ELSE 1

RECURSIVE BitLen(_)
BitLen(n) == IF n = 0 THEN 0 ELSE 1 + BitLen(n \div 2)

\* rounding of a value >= 0 given as the floor of its double (units of
\* half a unit) and whether anything was cut off below that
RoundBits(q2, sticky) ==
    LET k == Max(1, BitLen(q2) - Precision)
        m == q2 \div (2 ^ k)
        r == q2 % (2 ^ k)
        half == 2 ^ (k - 1)
        up == \/ r > half
              \/ r = half /\ sticky
              \/ r = half /\ ~sticky /\ m % 2 = 1
    IN  (IF up THEN m + 1 ELSE m) * half

\* the integer n as a float
FromInt(n) == Sgn(n) * RoundBits(2 * Abs(n) * One, FALSE)

FAdd(x, y) == Sgn(x + y) * RoundBits(2 * Abs(x + y), FALSE)

FMul(x, y) ==
    Sgn(x * y) * RoundBits((2 * Abs(x * y)) \div One,
                           (2 * Abs(x * y)) % One # 0)

\* x / y for y > 0
FDiv(x, y) ==
    Sgn(x) * RoundBits((2 * Abs(x) * One) \div y,
                       (2 * Abs(x) * One) % y # 0)

RECURSIVE FloorSqrt(_, _, _)
\* the largest r in lo..hi with r * r <= x
FloorSqrt(x, lo, hi) ==
    IF lo = hi THEN lo
    ELSE LET mid == (lo + hi + 1) \div 2
         IN  IF mid * mid <= x THEN FloorSqrt(x, mid, hi)
             ELSE FloorSqrt(x, lo, mid - 1)

\* square root of x >= 0
FSqrt(x) ==
    LET x4 == 4 * x * One
        r == FloorSqrt(x4, 0, 2 ^ 15)
    IN  RoundBits(r, r * r # x4)

RECURSIVE FSum(_)
\* sum of a sequence of floats, from left to right
FSum(xs) ==
    IF xs = <<>> THEN 0
    ELSE FAdd(FSum(SubSeq(xs, 1, Len(xs) - 1)), xs[Len(xs)])

\* np.dot
Dot(a, b) == FSum([k \in 1..Len(a) |-> FMul(a[k], b[k])])

\* np.linalg.norm
Norm(a) == FSqrt(Dot(a, a))

\* emb / (np.linalg.norm(emb) + 1e-8)
Normalize(a) ==
    LET n == FAdd(Norm(a), Eps)
    IN  [k \in 1..Len(a) |-> FDiv(a[k], n)]

\* np.array of the embedding given as a list
AsArray(embedding) == [k \in 1..Len(embedding) |-> FromInt(embedding[k])]

\* compute_similarity: cosine of the two normalized arrays, mapped from
\* [-1, 1] to [0, 1]
Similarity(e1, e2) ==
    LET emb1 == Normalize(AsArray(e1))
        emb2 == Normalize(AsArray(e2))
        cosine == Dot(emb1, emb2)
    IN  FDiv(FAdd(cosine, One), 2 * One)

\* the embeddings given to compute_similarity: two components each
Components == {-4, -1, 0, 1, 3, 4, 8}
Vectors == [1..2 -> Components]

InitSimilarity ==
    /\ pc = "idle"
    /\ deterministic = FALSE
    /\ InitPipeline
    /\ InitCache
    /\ InitRuns
    /\ InitCli
    /\ InitStream
    /\ embedding1 \in Vectors
    /\ embedding2 \in Vectors
    /\ similarity = -1

ComputeSimilarity ==
    /\ similarity = -1
    /\ similarity' = Similarity(embedding1, embedding2)
    /\ UNCHANGED << pipelineVars, iterations, cacheVars, init_calls, runVars,
                    cliVars, embedding1, embedding2, streamVars >>

SimSpec == InitSimilarity /\ [][ComputeSimilarity]_vars

(* ---------------------- transcribe_realtime_stream --------------------- *)
\* The stream loop with its sizes scaled down: a read asks for ChunkSize
\* samples (1600 in the source), recognition runs whenever the buffer holds
\* SecondSamples samples (16000) and then keeps the last KeptSamples (1600).
\* audio_buffer is the length of the list, reads the sample counts of the
\* reads so far, generate_calls the calls of pipeline.generate so far.
ChunkSize == 2
SecondSamples == 6
KeptSamples == 2
MaxReads == 6
BytesPerSample == 2

\* what sys.stdin.buffer.read(chunk_size * 2) can return: nothing at the
\* end of the stream, otherwise up to the number of bytes asked for
ReadLengths == 0..(ChunkSize * BytesPerSample)

\* np.frombuffer(chunk, dtype=np.int16) raises unless the bytes are whole
\* samples
WholeSamples(bytes) == bytes % BytesPerSample = 0

\* the variant that keeps the whole buffer after a recognition
KeepsAll(n) == n

\* len(audio_buffer[-1600:])
Kept(n) == PySliceLen(n, -KeptSamples, n)

\* a call of pipeline.generate on n samples
GenerateCall(n, is_final) == [samples |-> n, is_final |-> is_final]

\* lines 147-157: init_model raises, or the loop starts with an empty buffer
StartStream ==
    /\ pc = "idle"
    /\ stream_pc = "idle"
    /\ \/ stream_pc' = "failed"
       \/ stream_pc' = "loop"
    /\ audio_buffer' = 0
    /\ UNCHANGED << reads, generate_calls >>
    /\ UNCHANGED << pipelineVars, iterations, cacheVars, init_calls, runVars,
                    cliVars, simVars >>

\* one pass of the while loop; raised says whether pipeline.generate or
\* output_result raises
ReadChunk ==
    /\ stream_pc = "loop"
    /\ \E bytes \in ReadLengths, raised \in BOOLEAN :
        IF bytes = 0
        THEN /\ UNCHANGED << reads, audio_buffer >>
             /\ IF audio_buffer # 0
                THEN /\ generate_calls' =
                         Append(generate_calls,
                                GenerateCall(audio_buffer, TRUE))
                     /\ stream_pc' = IF raised THEN "failed" ELSE "done"
                ELSE /\ ~raised
                     /\ stream_pc' = "done"
                     /\ UNCHANGED generate_calls
        ELSE /\ Len(reads) < MaxReads
             /\ IF ~WholeSamples(bytes)
                THEN /\ ~raised
                     /\ stream_pc' = "failed"
                     /\ UNCHANGED << reads, audio_buffer, generate_calls >>
                ELSE LET n == audio_buffer + bytes \div BytesPerSample
                     IN  /\ reads' = Append(reads, bytes \div BytesPerSample)
                         /\ IF n >= SecondSamples
                            THEN /\ generate_calls' =
                                     Append(generate_calls,
                                            GenerateCall(n, FALSE))
                                 /\ IF raised
                                    THEN /\ stream_pc' = "failed"
                                         /\ audio_buffer' = n
                                    ELSE /\ stream_pc' = "loop"
                                         /\ audio_buffer' = Kept(n)
                            ELSE /\ ~raised
                                 /\ audio_buffer' = n
                                 /\ UNCHANGED << generate_calls, stream_pc >>
    /\ UNCHANGED << pipelineVars, iterations, cacheVars, init_calls, runVars,
                    cliVars, simVars >>

NextStream ==
    \/ StartStream
    \/ ReadChunk

StreamSpec == Init /\ [][NextStream]_vars

(* --------------------------- command line ------------------------------ *)
\* a line of text on standard output that is no JSON
TextLine == [kind |-> "text"]

\* print(json.dumps(result)) of a result with that success field
JsonLine(success) == [kind |-> "json", success |-> success]

\* a script is started: main has not looked at sys.argv yet
InitMain ==
    /\ pc = "main"
    /\ deterministic = FALSE
    /\ InitPipeline
    /\ InitCache
    /\ InitRuns
    /\ InitCli
    /\ InitSim
    /\ InitStream

\* main of multi_speaker_*.py up to the call: without a command it prints
\* __doc__, with an unknown command two lines of text, both to standard
\* output; a missing argument or a float() that fails is caught and printed
\* as an error result; otherwise identify_multi_speaker is called
MainMulti ==
    /\ pc = "main"
    /\ script' = "multi_speaker"
    /\ \/ /\ stdout' = << TextLine >>
          /\ exit_code' = 1
          /\ pc' = "exit"
       \/ /\ stdout' = << TextLine, TextLine >>
          /\ exit_code' = 1
          /\ pc' = "exit"
       \/ /\ stdout' = << JsonLine(FALSE) >>
          /\ exit_code' = 1
          /\ pc' = "exit"
       \/ /\ pc' = "idle"
          /\ UNCHANGED << stdout, exit_code >>
    /\ UNCHANGED << fn, audio_len, chunk_samples, threshold,
                    reference_embeddings, chunks, start_sample, i, extracted,
                    scores, detected_speakers, all_identifications,
                    num_segments, text_segments, identified_segments,
                    result >>
    /\ UNCHANGED << iterations, cacheVars, init_calls, runVars, simVars,
                    streamVars >>

\* main of transcribe_with_speaker.py up to the call: with fewer than two
\* arguments it prints the usage to standard output; float(sys.argv[3]) is
\* outside the try, so that its exception ends the process with nothing on
\* standard output; otherwise transcribe_with_speaker_identification is
\* called
MainTranscribe ==
    /\ pc = "main"
    /\ script' = "transcribe_with_speaker"
    /\ \/ /\ stdout' = << TextLine >>
          /\ exit_code' = 1
          /\ pc' = "exit"
       \/ /\ stdout' = <<>>
          /\ exit_code' = 1
          /\ pc' = "exit"
       \/ /\ pc' = "idle"
          /\ UNCHANGED << stdout, exit_code >>
    /\ UNCHANGED << fn, audio_len, chunk_samples, threshold,
                    reference_embeddings, chunks, start_sample, i, extracted,
                    scores, detected_speakers, all_identifications,
                    num_segments, text_segments, identified_segments,
                    result >>
    /\ UNCHANGED << iterations, cacheVars, init_calls, runVars, simVars,
                    streamVars >>

\* the function has returned: main prints the result and returns 0
MainPrint ==
    /\ script # "none"
    /\ pc = "done"
    /\ stdout' = Append(stdout, JsonLine(result.success))
    /\ exit_code' = 0
    /\ pc' = "exit"
    /\ UNCHANGED << fn, audio_len, chunk_samples, threshold,
                    reference_embeddings, chunks, start_sample, i, extracted,
                    scores, detected_speakers, all_identifications,
                    num_segments, text_segments, identified_segments,
                    result, script >>
    /\ UNCHANGED << iterations, cacheVars, init_calls, runVars, simVars,
                    streamVars >>

\* a run of one of the two scripts
NextMain ==
    \/ MainMulti
    \/ MainTranscribe
    \/ (script = "multi_speaker" /\ CallIdentifyMulti)
    \/ SplitRead
    \/ SplitStep
    \/ CheckChunks
    \/ ProcessChunk
    \/ Summarize
    \/ (script = "transcribe_with_speaker" /\ CallTranscribe)
    \/ ProcessSegment
    \/ FinishTranscribe
    \/ MainPrint

MainSpec == InitMain /\ [][NextMain]_vars

\* the states the cache can be in after calls of init_model: nothing
\* cached; a model of the cached type on the device of the call that loaded
\* it; a model whose set_device raised, with the type cached before
ReachableCaches ==
    { [model |-> NoModel, model_type |-> NoType] }
      \cup { [model |-> OnDevice(Fresh(t), d), model_type |-> t] :
                t \in ModelTypes, d \in Devices }
      \cup UNION { { [model |-> Fresh(t), model_type |-> c] :
                        c \in ({NoType} \cup ModelTypes) \ {t} } :
                    t \in ModelTypes }

\* a process in which identify_multi_speaker is called twice with the same
\* arguments, with a deterministic loader and embedder, after any calls of
\* init_model
InitTwice ==
    /\ pc = "idle"
    /\ deterministic = TRUE
    /\ InitPipeline
    /\ \E c \in ReachableCaches :
          /\ _model = c.model
          /\ _model_type = c.model_type
    /\ init_calls = <<>>
    /\ memo = EmptyMemo
    /\ run = 1
    /\ first_result = NoResult
    /\ InitCli
    /\ InitSim
    /\ InitStream

\* the second call of identify_multi_speaker, with the arguments of the
\* first: the locals are new, the gallery JSON is parsed again
CallAgain ==
    /\ fn = "identify_multi_speaker"
    /\ pc = "done"
    /\ run = 1
    /\ run' = 2
    /\ first_result' = result
    /\ IF result = ErrorResult("json")
       THEN GalleryMalformed
       ELSE /\ pc' = "split"
            /\ result' = NoResult
            /\ UNCHANGED reference_embeddings
    /\ audio_len' = -1
    /\ chunks' = <<>>
    /\ start_sample' = 0
    /\ i' = 0
    /\ extracted' = <<>>
    /\ scores' = <<>>
    /\ UNCHANGED << fn, chunk_samples, threshold, detected_speakers,
                    all_identifications, num_segments, text_segments,
                    identified_segments, iterations, cacheVars, memo,
                    init_calls, deterministic, cliVars, simVars, streamVars >>

NextTwice ==
    \/ CallIdentifyMulti
    \/ SplitRead
    \/ SplitStep
    \/ CheckChunks
    \/ ProcessChunk
    \/ Summarize
    \/ CallAgain

TwiceSpec == InitTwice /\ [][NextTwice]_vars

\* a process that calls init_model any number of times
CacheSpec == Init /\ [][InitModel]_vars

\* identify_multi_speaker up to the return of split_audio_to_chunks; the loop
\* of the chunker runs in one thread without waiting, so its next step is
\* taken whenever there is one
NextChunker ==
    \/ CallIdentifyMulti
    \/ SplitRead
    \/ SplitStep

ChunkerSpec == Init /\ [][NextChunker]_vars /\ WF_vars(SplitStep)

(* ============================== properties ============================== *)
IsMulti == fn = "identify_multi_speaker"
IsTranscribe == fn = "transcribe_with_speaker_identification"
IsIdentify == fn = "identify_speaker"

\* identify_multi_speaker returned a result with a primary speaker
MultiIdentified == IsMulti /\ pc = "done" /\ result.success /\ result.identified

\* the number of matched windows of speaker sid
CountIn(ids, sid) == Cardinality({ k \in 1..Len(ids) : ids[k].speaker_id = sid })

\* the first matched window of speaker sid
FirstIn(ids, sid) ==
    CHOOSE k \in 1..Len(ids) :
        /\ ids[k].speaker_id = sid
        /\ \A m \in 1..(k - 1) : ids[m].speaker_id # sid

\* the highest confidence of the matched windows of speaker sid
MaxConfIn(ids, sid) ==
    LET cs == { ids[k].confidence : k \in { m \in 1..Len(ids) : ids[m].speaker_id = sid } }
    IN CHOOSE c \in cs : \A d \in cs : d <= c

SeqRange(seq) == { seq[k] : k \in 1..Len(seq) }

\* the window handed to the embedder last
LastExtracted == extracted[Len(extracted)]

\* the state right after a window was scored against the gallery
JustScored ==
    /\ extracted # <<>>
    /\ LastExtracted.ok
    /\ \/ (IsMulti \/ IsTranscribe) /\ i = LastExtracted.index + 1
       \/ IsIdentify /\ pc = "done"

\* the highest similarity of a scored window, for a gallery that is not empty
BestOf(sc) ==
    LET vs == { sc[x] : x \in DOMAIN sc } IN CHOOSE v \in vs : \A w \in vs : w <= v

\* the gallery speakers with that similarity
TiedAtBest(sc) == { x \in DOMAIN sc : sc[x] = BestOf(sc) }

\* the matches recorded for the window scored last (identify_multi_speaker)
LastMatches ==
    { k \in 1..Len(all_identifications) :
        all_identifications[k].chunk_index = LastExtracted.index }

\* what is reported for the window scored last: the speaker (None for no
\* speaker) and the confidence (-1 where the result has no such field)
Reported ==
    IF IsMulti
    THEN IF LastMatches = {} THEN [speaker |-> None, confidence |-> -1]
         ELSE LET e == all_identifications[CHOOSE k \in LastMatches : TRUE]
              IN [speaker |-> e.speaker_id, confidence |-> e.confidence]
    ELSE IF IsTranscribe
    THEN LET o == identified_segments[Len(identified_segments)].speaker
         IN [speaker |-> IF o.name = Unrecognized THEN None ELSE o.name,
             confidence |-> o.confidence]
    ELSE IF "profileId" \in DOMAIN result
    THEN [speaker |-> result.profileId, confidence |-> result.confidence]
    ELSE [speaker |-> None, confidence |-> -1]

(* C1: whenever at least one chunk is matched, the primary speaker of
   identify_multi_speaker (profileId, speakerId) is a detected speaker, and
   no detected speaker has more matched windows than it has, also when
   another speaker has the highest confidence. *)
C1_PrimaryHasMaxCount ==
    MultiIdentified =>
        /\ result.profileId = result.speakerId
        /\ result.profileId \in SeqRange(result.detectedSpeakers)
        /\ \A sid \in SeqRange(result.detectedSpeakers) :
              CountIn(result.chunks, sid) <= CountIn(result.chunks, result.profileId)

\* a result whose primary speaker has more windows and a lower confidence
\* than another detected speaker
C1_Witness ==
    /\ MultiIdentified
    /\ \E sid \in SeqRange(result.detectedSpeakers) :
          /\ CountIn(result.chunks, sid) < CountIn(result.chunks, result.profileId)
          /\ MaxConfIn(result.chunks, sid) > result.confidence

(* C2 as stated, for results whose detected speakers are gallery speakers:
   among the speakers that share the highest count the primary speaker is
   the one with the highest max_confidence, and among those with that
   max_confidence too the one whose identifier sorts first. *)
C2_TieByConfidenceThenId ==
    (MultiIdentified /\ None \notin SeqRange(result.detectedSpeakers)) =>
        \A sid \in SeqRange(result.detectedSpeakers) :
            CountIn(result.chunks, sid) = CountIn(result.chunks, result.profileId) =>
                \/ MaxConfIn(result.chunks, sid) < MaxConfIn(result.chunks, result.profileId)
                \/ /\ MaxConfIn(result.chunks, sid) = MaxConfIn(result.chunks, result.profileId)
                   /\ result.profileId <= sid

(* C2 amended: among the speakers that share the highest count the primary
   speaker is the one that was detected first: its first matched window
   comes before the first matched window of every other of them. *)
C2_TieByFirstDetection ==
    MultiIdentified =>
        \A sid \in SeqRange(result.detectedSpeakers) \ {result.profileId} :
            CountIn(result.chunks, sid) = CountIn(result.chunks, result.profileId) =>
                FirstIn(result.chunks, result.profileId) < FirstIn(result.chunks, sid)

\* a tie of the counts in which the other speaker has the higher
\* max_confidence and the identifier that sorts first
C2_Witness ==
    /\ MultiIdentified
    /\ \E sid \in SeqRange(result.detectedSpeakers) :
          /\ sid # None
          /\ sid < result.profileId
          /\ CountIn(result.chunks, sid) = CountIn(result.chunks, result.profileId)
          /\ MaxConfIn(result.chunks, sid) > result.confidence

(* C3: in the three matchers a gallery speaker is reported for a window only
   if the similarity of that speaker is at least the threshold, and the
   confidence reported with it is that similarity; when the best similarity
   is below the threshold no speaker is reported (no chunk entry, the name
   of the unrecognized, profileId None) and the confidence, where the result
   has one, is the best similarity. *)
C3_MatchOnlyAtThreshold ==
    JustScored =>
        /\ Reported.speaker \in DOMAIN scores =>
              /\ scores[Reported.speaker] >= threshold
              /\ Reported.confidence = scores[Reported.speaker]
        /\ (DOMAIN scores # {} /\ BestOf(scores) < threshold) =>
              /\ Reported.speaker = None
              /\ IsMulti => LastMatches = {}
              /\ IsTranscribe =>
                    /\ identified_segments[Len(identified_segments)].speaker.name
                          = Unrecognized
                    /\ Reported.confidence = BestOf(scores)
              /\ IsIdentify =>
                    /\ ~result.identified
                    /\ result.speakerId = None
                    /\ Reported.confidence = BestOf(scores)

\* a transcript segment left unmatched with a best similarity above 0
C3_Witness ==
    /\ IsTranscribe
    /\ JustScored
    /\ DOMAIN scores # {}
    /\ BestOf(scores) > 0
    /\ BestOf(scores) < threshold
    /\ Reported.speaker = None
    /\ Reported.confidence = BestOf(scores)

(* C4 as stated, for a chunk_duration above 0: with an empty gallery no
   window is recorded as matched, no speaker (not even None) enters the
   detected set, and a result with success = true has identified = false
   and no candidates. *)
C4_EmptyGalleryNeverIdentifies ==
    ((IsIdentify \/ (IsMulti /\ chunk_samples > 0)) /\ reference_embeddings = <<>>) =>
        /\ detected_speakers = <<>>
        /\ all_identifications = <<>>
        /\ (pc = "done" /\ result.success) =>
              /\ ~result.identified
              /\ result.candidates = <<>>

(* C5 as stated: when the audio was read and gave no usable window,
   identify_multi_speaker returns a result with success = true,
   identified = false and empty collections. *)
C5_NoWindowsIsNotAnError ==
    (IsMulti /\ pc = "done" /\ audio_len >= 0 /\ chunks = <<>>) =>
        /\ result.success
        /\ ~result.identified
        /\ result.candidates = <<>>
        /\ result.detectedSpeakers = <<>>

\* the smallest element of a set of numbers
MinOf(S) == CHOOSE x \in S : \A y \in S : x <= y

\* the element of S that comes first in the insertion order
FirstInOrder(order, S) == order[MinOf({ k \in 1..Len(order) : order[k] \in S })]

(* C6 as stated: when two or more gallery speakers have the best similarity
   of a window and a gallery speaker is reported for it, the speaker reported
   is the one of them whose identifier sorts first. *)
C6_TieBreakLexicographic ==
    (JustScored /\ Reported.speaker \in DOMAIN scores
       /\ Cardinality(TiedAtBest(scores)) >= 2) =>
        Reported.speaker = MinOf(TiedAtBest(scores))

(* C6 amended: when two or more gallery speakers have the best similarity of
   a window and a gallery speaker is reported for it, the speaker reported is
   the one of them that comes first in the iteration (insertion) order of
   the gallery. *)
C6_TieBreakInsertionOrder ==
    (JustScored /\ Reported.speaker \in DOMAIN scores
       /\ Cardinality(TiedAtBest(scores)) >= 2) =>
        Reported.speaker = FirstInOrder(reference_embeddings, TiedAtBest(scores))

\* a window of identify_multi_speaker with two best speakers, matched to
\* the one that does not sort first
C6_Witness ==
    /\ IsMulti
    /\ JustScored
    /\ Reported.speaker \in DOMAIN scores
    /\ Cardinality(TiedAtBest(scores)) >= 2
    /\ Reported.speaker # MinOf(TiedAtBest(scores))

(* C7: in identify_multi_speaker the windows are handed to the embedder one
   after the other in order whatever the earlier ones did; a window whose
   extraction failed has no match; the run ends with success = true, and
   with identified = false when every extraction failed. *)
C7_ExtractionFailureNeverAborts ==
    (IsMulti /\ chunks # <<>> /\ pc \in {"loop", "done"}) =>
        /\ Len(extracted) = i
        /\ \A k \in 1..Len(extracted) : extracted[k].index = k - 1
        /\ \A k \in 1..Len(extracted) :
              ~extracted[k].ok =>
                  \A m \in 1..Len(all_identifications) :
                      all_identifications[m].chunk_index # k - 1
        /\ pc = "done" =>
              /\ i = Len(chunks)
              /\ result.success
              /\ (\A k \in 1..Len(extracted) : ~extracted[k].ok) =>
                    ~result.identified

\* a finished run whose first window failed and whose last window matched
C7_Witness ==
    /\ IsMulti
    /\ pc = "done"
    /\ Len(extracted) >= 2
    /\ ~extracted[1].ok
    /\ \E m \in 1..Len(all_identifications) :
          all_identifications[m].chunk_index = Len(chunks) - 1

(* C8 as stated: in the transcript pipeline the run goes on after the
   extraction of a segment failed, and what it returns has success = true. *)
C8_SegmentFailureRecovered ==
    (IsTranscribe /\ \E k \in 1..Len(extracted) : ~extracted[k].ok) =>
        \/ pc = "segments"
        \/ pc = "done" /\ result.success

\* the transcript pipeline returned success = true
TranscribeSucceeded == IsTranscribe /\ pc = "done" /\ result.success

\* the text of a segment has something other than white space
HasText(seg) == seg.text \notin {"", " "}

(* C9 as stated: a successful run of the transcript pipeline returns one
   output segment per segment of the transcriber. *)
C9_OneOutputPerSegment ==
    TranscribeSucceeded =>
        /\ Len(text_segments) = num_segments
        /\ result.total_segments = num_segments
        /\ Len(result.segments) = num_segments

(* C9 amended: a successful run of the transcript pipeline returns one
   output segment per segment of the transcriber whose text is not empty
   after strip(), in the order of the input, with its text, start and end;
   total_segments is the number of those segments. *)
C9_OneOutputPerTextSegment ==
    TranscribeSucceeded =>
        LET kept == SelectSeq(text_segments, HasText)
        IN /\ Len(text_segments) = num_segments
           /\ result.total_segments = Len(kept)
           /\ Len(result.segments) = Len(kept)
           /\ \A k \in 1..Len(kept) :
                 /\ result.segments[k].text = kept[k].text
                 /\ result.segments[k].start = kept[k].start
                 /\ result.segments[k].end = kept[k].end

\* a successful run with a blank segment followed by a segment with text
C9_Witness ==
    /\ TranscribeSucceeded
    /\ num_segments >= 2
    /\ ~HasText(text_segments[1])
    /\ HasText(text_segments[2])
    /\ result.total_segments = 1

\* the segment read as the k-th was handed to the embedder
SentToEmbedder(k) == \E m \in 1..Len(extracted) : extracted[m].index = k - 1

\* the segment read as the k-th has the placeholder as its output segment
HasPlaceholder(k) ==
    LET o == Cardinality({ m \in 1..k : HasText(text_segments[m]) })
    IN /\ HasText(text_segments[k])
       /\ o <= Len(identified_segments)
       /\ identified_segments[o] =
             [text |-> text_segments[k].text,
              start |-> text_segments[k].start,
              end |-> text_segments[k].end,
              speaker |-> [name |-> Unrecognized, confidence |-> 0]]

(* C10 as stated: every transcript segment whose audio is shorter than one
   second is not handed to the embedder and has the placeholder (the name of
   the unrecognized, confidence 0) as its output segment. *)
C10_ShortSegmentPlaceholder ==
    IsTranscribe =>
        \A k \in 1..Len(text_segments) :
            SegmentLen(text_segments[k], audio_len) < SampleRate =>
                /\ ~SentToEmbedder(k)
                /\ HasPlaceholder(k)

(* C10 amended: every transcript segment with a text that is not empty after
   strip() and an audio shorter than half a second is not handed to the
   embedder and has the placeholder (the name of the unrecognized,
   confidence 0) as its output segment. *)
C10_HalfSecondPlaceholder ==
    IsTranscribe =>
        \A k \in 1..Len(text_segments) :
            (HasText(text_segments[k])
               /\ 2 * SegmentLen(text_segments[k], audio_len) < SampleRate) =>
                /\ ~SentToEmbedder(k)
                /\ HasPlaceholder(k)

\* a segment with text and an audio of some samples, fewer than half a
\* second, that has the placeholder
C10_Witness ==
    /\ IsTranscribe
    /\ \E k \in 1..Len(text_segments) :
          /\ HasText(text_segments[k])
          /\ SegmentLen(text_segments[k], audio_len) > 0
          /\ 2 * SegmentLen(text_segments[k], audio_len) < SampleRate
          /\ HasPlaceholder(k)
          /\ ~SentToEmbedder(k)

\* split_audio_to_chunks is running its loop or has returned
InChunker == IsMulti /\ pc \in {"split_loop", "split_done"}

\* split_audio_to_chunks has returned
ChunkerReturned == IsMulti /\ pc = "split_done"

(* C11: the chunker returns the empty list, and raises nothing, for every
   waveform shorter than one second of samples: a waveform of some samples,
   a waveform of no sample, and a file that cannot be read (audio_len = -1),
   whatever chunk_duration is. *)
C11_ShortWaveformNoWindows ==
    (InChunker /\ audio_len < SampleRate) =>
        /\ chunks = <<>>
        /\ result = NoResult

\* the chunker returned for a waveform of some samples, fewer than a second,
\* and a chunk size of a second or more
C11_Witness ==
    /\ ChunkerReturned
    /\ audio_len > 0
    /\ audio_len < SampleRate
    /\ chunk_samples >= SampleRate
    /\ chunks = <<>>

(* C12: for a chunk_duration > 0 (the input constraint of the chunker),
   every window of the chunker lasts one second or more and chunk_duration
   or less, the first window starts at 0, each window starts where the one
   before it ends, and the start times do not decrease. *)
C12_WindowsContiguous ==
    (InChunker /\ chunk_samples > 0) =>
        /\ \A k \in 1..Len(chunks) :
              /\ chunks[k].end_time - chunks[k].start_time >= SampleRate
              /\ chunks[k].end_time - chunks[k].start_time <= chunk_samples
        /\ chunks # <<>> => chunks[1].start_time = 0
        /\ \A k \in 1..(Len(chunks) - 1) :
              /\ chunks[k + 1].start_time = chunks[k].end_time
              /\ chunks[k].start_time <= chunks[k + 1].start_time

\* the chunker returned two windows, the last of them shorter than the
\* chunk size
C12_Witness ==
    /\ ChunkerReturned
    /\ Len(chunks) = 2
    /\ chunks[2].start_time = chunk_samples
    /\ chunks[2].end_time - chunks[2].start_time < chunk_samples

(* C13: for N samples and a chunk size of C samples, C one second of
   samples or more, the chunker returns floor(N / C) full windows and one
   more window exactly when N mod C is one second of samples or more;
   window k (from 0) covers the samples [k * C, min((k + 1) * C, N)); an
   audio of MaxSeconds seconds at one second per window gives MaxSeconds
   windows. *)
C13_WindowCount ==
    (ChunkerReturned /\ audio_len >= 0 /\ chunk_samples >= SampleRate) =>
        /\ Len(chunks) = (audio_len \div chunk_samples)
                         + (IF audio_len % chunk_samples >= SampleRate
                            THEN 1 ELSE 0)
        /\ \A k \in 1..Len(chunks) :
              /\ chunks[k].start_time = (k - 1) * chunk_samples
              /\ chunks[k].end_time = Min(k * chunk_samples, audio_len)
        /\ (audio_len = MaxSeconds * SampleRate /\ chunk_samples = SampleRate)
              => Len(chunks) = MaxSeconds

\* full windows and a remainder of some samples, fewer than a second, that
\* is dropped
C13_Witness ==
    /\ ChunkerReturned
    /\ chunk_samples >= SampleRate
    /\ audio_len % chunk_samples > 0
    /\ audio_len % chunk_samples < SampleRate
    /\ Len(chunks) = audio_len \div chunk_samples
    /\ Len(chunks) >= 1

(* C14 as stated: with a chunk_duration of zero or less (in the model the
   chunk durations with chunk_samples <= 0) identify_multi_speaker chunks no
   window, hands nothing to the embedder, records no match and returns an
   error result; no window ends before it starts. *)
C14_InvalidDurationIsFatal ==
    (IsMulti /\ chunk_samples <= 0) =>
        /\ chunks = <<>>
        /\ extracted = <<>>
        /\ all_identifications = <<>>
        /\ \A k \in 1..Len(chunks) :
              chunks[k].start_time <= chunks[k].end_time
        /\ pc = "done" => ~result.success

\* the function returned the error result of a malformed gallery
GalleryErrorReturned == pc = "done" /\ result = ErrorResult("json")

(* C15: a malformed gallery JSON never leaves a pipeline as an exception; it
   is returned as the error result (success = false, error = the message);
   identify_multi_speaker returns it before the audio is read, a window is
   chunked or anything is handed to the embedder, and
   transcribe_with_speaker_identification returns it before any segment is
   processed. *)
C15_MalformedGalleryReported ==
    /\ (IsMulti \/ IsTranscribe) => pc # "raised"
    /\ (IsMulti /\ GalleryErrorReturned) =>
          /\ ~result.success
          /\ audio_len = -1
          /\ chunks = <<>>
          /\ extracted = <<>>
          /\ all_identifications = <<>>
    /\ (IsTranscribe /\ GalleryErrorReturned) =>
          /\ ~result.success
          /\ i = 0
          /\ extracted = <<>>
          /\ identified_segments = <<>>

\* identify_multi_speaker returned the error of a malformed gallery
C15_Witness ==
    /\ IsMulti
    /\ GalleryErrorReturned
    /\ chunk_samples >= SampleRate

\* identify_multi_speaker returned a result that is no error
MultiSucceeded == IsMulti /\ pc = "done" /\ result.success

\* the per-window matches of a result: the result of a run without a match
\* has no chunks field
ChunksOf(res) == IF "chunks" \in DOMAIN res THEN res.chunks ELSE <<>>

\* the speakers of a list of matches
SpeakersIn(ids) == { ids[k].speaker_id : k \in 1..Len(ids) }

(* C16: in a result of identify_multi_speaker, detectedSpeakers and the
   profileIds of candidates are, without repetition, exactly the speaker_id
   values of the per-window matches (chunks); numDetectedSpeakers is their
   number; a result without matches has no detected speaker. *)
C16_DetectedAreTheMatched ==
    MultiSucceeded =>
        LET matched == SpeakersIn(ChunksOf(result))
        IN /\ ChunksOf(result) = all_identifications
           /\ SeqRange(result.detectedSpeakers) = matched
           /\ Len(result.detectedSpeakers) = Cardinality(matched)
           /\ { result.candidates[k].profileId :
                    k \in 1..Len(result.candidates) } = matched
           /\ Len(result.candidates) = Cardinality(matched)
           /\ result.numDetectedSpeakers = Cardinality(matched)

\* a result with three matches of two speakers
C16_Witness ==
    /\ MultiSucceeded
    /\ Len(ChunksOf(result)) = 3
    /\ Len(result.detectedSpeakers) = 2
    /\ None \notin SeqRange(result.detectedSpeakers)

\* the sum of the counts of the dict
RECURSIVE SumCounts(_)
SumCounts(ds) == IF ds = <<>> THEN 0 ELSE ds[1].count + SumCounts(Tail(ds))

(* C17: after any number of windows, every entry of detected_speakers has
   count = the number of matches of that speaker = the length of its
   time_ranges, and max_confidence = the highest confidence of those
   matches; the counts add up to the number of matches. *)
C17_AggregatesAgree ==
    (IsMulti /\ pc \in {"loop", "done"}) =>
        /\ \A k \in 1..Len(detected_speakers) :
              LET e == detected_speakers[k]
              IN /\ e.count >= 1
                 /\ e.count = CountIn(all_identifications, e.speaker_id)
                 /\ e.count = Len(e.time_ranges)
                 /\ e.max_confidence =
                        MaxConfIn(all_identifications, e.speaker_id)
        /\ SumCounts(detected_speakers) = Len(all_identifications)

\* in the middle of the loop: a speaker with two matches, the first with the
\* higher confidence, and another speaker with a match
C17_Witness ==
    /\ IsMulti
    /\ pc = "loop"
    /\ Len(all_identifications) = 3
    /\ Len(detected_speakers) = 2
    /\ detected_speakers[1].count = 2
    /\ all_identifications[1].speaker_id = detected_speakers[1].speaker_id
    /\ all_identifications[3].speaker_id = detected_speakers[1].speaker_id
    /\ all_identifications[1].confidence > all_identifications[3].confidence

(* C18: the windows are processed in chronological order: chunk_index and
   start_time increase strictly along the matches (chunks), so that no
   window occurs twice, the windows are handed to the embedder in the order
   of their index, and the time_ranges of every speaker increase strictly in
   their start. *)
C18_ChronologicalOrder ==
    (IsMulti /\ pc \in {"loop", "done"}) =>
        /\ \A k \in 1..(Len(all_identifications) - 1) :
              /\ all_identifications[k].chunk_index
                    < all_identifications[k + 1].chunk_index
              /\ all_identifications[k].start_time
                    < all_identifications[k + 1].start_time
        /\ \A k \in 1..(Len(extracted) - 1) :
              extracted[k].index < extracted[k + 1].index
        /\ \A k \in 1..Len(detected_speakers) :
              \A m \in 1..(Len(detected_speakers[k].time_ranges) - 1) :
                  detected_speakers[k].time_ranges[m].start
                     < detected_speakers[k].time_ranges[m + 1].start
        /\ (pc = "done" /\ result.success) =>
              /\ ChunksOf(result) = all_identifications
              /\ \A k \in 1..Len(result.candidates) :
                    \A m \in 1..(Len(result.candidates[k].timeRanges) - 1) :
                        result.candidates[k].timeRanges[m].start
                           < result.candidates[k].timeRanges[m + 1].start

\* a result in which a speaker has the first and the third window and
\* another speaker the second
C18_Witness ==
    /\ MultiSucceeded
    /\ Len(ChunksOf(result)) = 3
    /\ result.chunks[1].speaker_id = result.chunks[3].speaker_id
    /\ result.chunks[2].speaker_id # result.chunks[1].speaker_id
    /\ result.chunks[1].chunk_index = 0
    /\ result.chunks[3].chunk_index = 2

\* the time ranges of the matches of speaker sid, in the order of the matches
RECURSIVE RangesIn(_, _)
RangesIn(ids, sid) ==
    IF ids = <<>> THEN <<>>
    ELSE (IF ids[1].speaker_id = sid
          THEN << [start |-> ids[1].start_time, end |-> ids[1].end_time] >>
          ELSE <<>>) \o RangesIn(Tail(ids), sid)

\* every candidate carries the statistics of its speaker
CandidatesCarryStats ==
    \A k \in 1..Len(result.candidates) :
        LET c == result.candidates[k]
        IN /\ c.confidence = MaxConfIn(result.chunks, c.profileId)
           /\ c.occurrences = CountIn(result.chunks, c.profileId)
           /\ c.timeRanges = RangesIn(result.chunks, c.profileId)

(* C19 as stated: the candidates of a result are the detected speakers in
   descending order of max_confidence, equal max_confidence in descending
   order of the count, equal count in the order of the identifiers; every
   candidate carries the occurrences and time ranges of its speaker.
   Stated for the results whose detected speakers are gallery speakers. *)
C19_CandidatesTiesByCountThenId ==
    (MultiIdentified /\ None \notin SeqRange(result.detectedSpeakers)) =>
        /\ CandidatesCarryStats
        /\ \A k \in 1..(Len(result.candidates) - 1) :
              LET a == result.candidates[k]
                  b == result.candidates[k + 1]
              IN \/ a.confidence > b.confidence
                 \/ /\ a.confidence = b.confidence
                    /\ \/ a.occurrences > b.occurrences
                       \/ /\ a.occurrences = b.occurrences
                          /\ a.profileId < b.profileId

(* C19 amended: the candidates of a result are the detected speakers in
   descending order of max_confidence, and candidates of equal
   max_confidence are in the order in which their speakers were detected
   first; every candidate carries the max_confidence, the occurrences and
   the time ranges of its speaker. *)
C19_CandidatesTiesByDetection ==
    MultiIdentified =>
        /\ CandidatesCarryStats
        /\ \A k \in 1..(Len(result.candidates) - 1) :
              LET a == result.candidates[k]
                  b == result.candidates[k + 1]
              IN \/ a.confidence > b.confidence
                 \/ /\ a.confidence = b.confidence
                    /\ FirstIn(result.chunks, a.profileId)
                          < FirstIn(result.chunks, b.profileId)

\* two candidates of equal confidence: the first was detected first and has
\* fewer occurrences than the second
C19_Witness ==
    /\ MultiIdentified
    /\ None \notin SeqRange(result.detectedSpeakers)
    /\ Len(result.candidates) = 2
    /\ result.candidates[1].confidence = result.candidates[2].confidence
    /\ result.candidates[1].occurrences < result.candidates[2].occurrences
    /\ result.chunks[1].speaker_id = result.candidates[1].profileId

\* a ranking of the gallery by the scores sc: one entry per gallery entry
\* with its score, in non-increasing order of the scores
IsRanking(cands, order, sc) ==
    /\ Len(cands) = Len(order)
    /\ { cands[k].profileId : k \in 1..Len(cands) } = Keys(order)
    /\ \A k \in 1..Len(cands) : cands[k].confidence = sc[cands[k].profileId]
    /\ \A k \in 1..(Len(cands) - 1) :
          cands[k].confidence >= cands[k + 1].confidence

\* identify_speaker scored a gallery that is not empty and returned
IdentifyScored ==
    IsIdentify /\ JustScored /\ reference_embeddings # <<>>

(* C20: the candidates that identify_speaker (1:N) returns for a scored
   audio hold one entry per gallery entry with its score, in non-increasing
   order of the scores, also when nobody is identified; the ranking that
   identify_multi_speaker writes for every scored window has the same
   shape. *)
C20_RankedCandidates ==
    /\ IdentifyScored =>
          /\ result.success
          /\ IsRanking(result.candidates, reference_embeddings, scores)
    /\ (IsMulti /\ JustScored) =>
          IsRanking(RankedScores(reference_embeddings, scores),
                    reference_embeddings, scores)

\* nobody is identified, and the candidates are the two gallery speakers,
\* the second of the gallery first
C20_Witness ==
    /\ IdentifyScored
    /\ ~result.identified
    /\ Len(reference_embeddings) = 2
    /\ result.candidates[1].profileId = reference_embeddings[2]
    /\ result.candidates[1].confidence > result.candidates[2].confidence

(* C21: in every result of identify_multi_speaker that is no error,
   multiSpeaker is true exactly when more than one speaker is detected. *)
C21_MultiSpeakerIffSeveral ==
    MultiSucceeded =>
        /\ result.multiSpeaker <=> Cardinality(SeqRange(result.detectedSpeakers)) > 1
        /\ result.multiSpeaker <=> Cardinality(SpeakersIn(all_identifications)) > 1

\* a result with one detected speaker that has two windows
C21_Witness ==
    /\ MultiSucceeded
    /\ Len(result.detectedSpeakers) = 1
    /\ Len(ChunksOf(result)) = 2
    /\ ~result.multiSpeaker

(* C22: in every result of identify_multi_speaker that is no error,
   identified is true exactly when a speaker is detected, and that is
   exactly when a window was matched, each match at a confidence at or
   above the threshold. *)
C22_IdentifiedIffDetected ==
    MultiSucceeded =>
        /\ result.identified <=> result.detectedSpeakers # <<>>
        /\ result.identified <=> all_identifications # <<>>
        /\ \A k \in 1..Len(all_identifications) :
              all_identifications[k].confidence >= threshold

\* a result of windows that were all scored below the threshold
C22_Witness ==
    /\ MultiSucceeded
    /\ ~result.identified
    /\ Len(extracted) >= 2
    /\ \A k \in 1..Len(extracted) : extracted[k].ok
    /\ reference_embeddings # <<>>

\* the speaker identifiers of a result of identify_multi_speaker
ResultSpeakers(res) ==
    SeqRange(res.detectedSpeakers)
      \cup SpeakersIn(ChunksOf(res))
      \cup { res.candidates[k].profileId : k \in 1..Len(res.candidates) }
      \cup (IF "profileId" \in DOMAIN res THEN {res.profileId} ELSE {})

(* C28 as stated: every speaker identifier of a result of
   identify_multi_speaker (in chunks, detectedSpeakers, candidates, and the
   primary profileId) is a key of the gallery; None is never among them,
   whatever the threshold and the scores.  Stated for the runs with a chunk
   size of a sample or more. *)
C28_OnlyGallerySpeakers ==
    (MultiSucceeded /\ chunk_samples > 0) =>
        /\ ResultSpeakers(result) \subseteq Keys(reference_embeddings)
        /\ None \notin ResultSpeakers(result)

(* C27 as stated: the loop of the chunker terminates for every length of
   the audio and every chunk_duration; every iteration either stops the
   loop or strictly advances start_sample; the number of iterations is at
   most the number of samples. *)
C27_LoopAdvancesAndTerminates ==
    /\ [][SplitStep => (pc' = "split_done" \/ start_sample' > start_sample)]_vars
    /\ []((InChunker /\ audio_len >= 0) => iterations <= audio_len)
    /\ (pc = "split_loop" ~> pc = "split_done")

(* C29 as stated: after any sequence of calls of init_model, raising ones
   included, the cached model is of the cached model type, and a call
   init_model(model_type, device) that returns, returns a model that was
   loaded for model_type and set to device. *)
C29_CacheAgrees ==
    /\ (_model # NoModel /\ _model_type # NoType) => _model.type = _model_type
    /\ \A k \in 1..Len(init_calls) :
          ~init_calls[k].raised =>
              /\ init_calls[k].model.type = init_calls[k].model_type
              /\ init_calls[k].model.device = init_calls[k].device

\* the second call of identify_multi_speaker has returned
SecondRunDone == run = 2 /\ pc = "done"

(* C23: a second call of identify_multi_speaker on the same audio, gallery
   and configuration, with a deterministic loader and embedder, returns
   what the first call returned, whatever the cache held before the first
   call and also when the second call uses the model the first call left
   in the cache. *)
C23_SecondRunSameResult ==
    SecondRunDone => result = first_result

\* the first call loaded the model, the second call found it in the cache,
\* and both identified a speaker from two matched windows
C23_Witness ==
    /\ SecondRunDone
    /\ memo.loader = "loaded"
    /\ _model_type = DefaultModelType
    /\ result.success
    /\ result.identified
    /\ Len(result.chunks) = 2
    /\ Len(extracted) = 3

\* main has returned, or the process has ended with an exception
Exited == pc = "exit"

(* C24 as stated: every run of a script prints exactly one line to standard
   output, and that line is a JSON result: also without arguments, with an
   unknown command, and when an exception is raised. *)
C24_OneJsonLine ==
    Exited => (Len(stdout) = 1 /\ stdout[1].kind = "json")

(* C25 as stated: a run that printed a result with success = false ends
   with an exit code that is not 0, and a run that printed a result with
   success = true ends with the exit code 0. *)
C25_ExitCodeSignalsFailure ==
    Exited =>
        \A k \in 1..Len(stdout) :
            stdout[k].kind = "json" =>
                /\ ~stdout[k].success => exit_code # 0
                /\ stdout[k].success => exit_code = 0

\* compute_similarity has returned
SimilarityComputed == similarity # -1

\* not the zero vector
NonZero(a) == \E k \in 1..Len(a) : a[k] # 0

(* C26 as stated: for every embedding a that is not zero, similarity(a, a)
   is exactly 1.0, the maximum of the scale, in spite of the epsilon added
   to the norm. *)
C26_SelfSimilarityIsMax ==
    (SimilarityComputed /\ embedding1 = embedding2 /\ NonZero(embedding1))
        => similarity = One

\* what does hold: the similarity is in [0, 1]
SimilarityInRange == SimilarityComputed => similarity \in 0..One

\* the stream loop has ended without an exception
StreamEnded == stream_pc = "done"

\* the positions of the recognition calls with is_final = true
FinalCalls == { k \in 1..Len(generate_calls) : generate_calls[k].is_final }

(* C30: in the stream loop, without exceptions, when at least one sample was
   read before the end of the stream, exactly one recognition call has
   is_final = true and it is the last call; every call that is not final is
   made on at least SecondSamples samples and leaves the last KeptSamples of
   them in the buffer, so that the buffer never holds more than
   SecondSamples + ChunkSize - 1 samples. *)
C30_StreamCalls ==
    /\ []((StreamEnded /\ reads # <<>>)
            => FinalCalls = { Len(generate_calls) })
    /\ [](\A k \in 1..Len(generate_calls) :
            ~generate_calls[k].is_final =>
                generate_calls[k].samples >= SecondSamples)
    /\ [][(stream_pc' = "loop" /\ generate_calls' # generate_calls)
            => audio_buffer' = KeptSamples]_vars
    /\ [](audio_buffer <= SecondSamples + ChunkSize - 1)

\* a stream that ended after a recognition on a full buffer and a final one
C30_Witness ==
    /\ StreamEnded
    /\ Len(generate_calls) >= 2
    /\ ~generate_calls[1].is_final
    /\ generate_calls[Len(generate_calls)].is_final

=============================================================================
